---- MODULE Spec2Model ----
(***************************************************************************)
(* Greeting dialog of mycheesebot (src/dialogs/greeting/greeting.js): a    *)
(* ComponentDialog holding a five-step WaterfallDialog and three           *)
(* TextPrompts, over a user profile kept in a state store.                 *)
(*                                                                         *)
(* JavaScript values: a string is a sequence of one-character strings,     *)
(* undefined is the tuple <<"undefined">> (no string has that shape). An   *)
(* optional object (the stored profile, options.userProfile) is <<>> when  *)
(* it is undefined and <<p>> when it is the object p.                      *)
(*                                                                         *)
(* The module also models the construction of the dialog                   *)
(* (Greeting.constructor) and the publish script (src/publish.js), each    *)
(* under a specification of its own.                                       *)
(***************************************************************************)
EXTENDS Integers, Sequences, FiniteSets

\* ---- bounds of the model ----
MaxLen == 2
MaxFailures == 1

\* ---- constants of greeting.js ----
NAME_LENGTH_MIN == 2
PROFILE_DIALOG == "profileDialog"
NAME_PROMPT == "namePrompt"
CITY_PROMPT == "cityPrompt"
PHONE_PROMPT == "phonePrompt"
VALIDATION_SUCCEEDED == TRUE
VALIDATION_FAILED == ~VALIDATION_SUCCEEDED

undefined == <<"undefined">>

\* characters of the respondent's text: a lower-case letter, a digit, a blank
Chars == {"b", "5", " "}
Whitespace == {" "}

RECURSIVE StringsOfLen(_)
StringsOfLen(n) ==
    IF n = 0 THEN {<<>>}
    ELSE {Append(s, c) : s \in StringsOfLen(n - 1), c \in Chars}

Strings == UNION {StringsOfLen(n) : n \in 0..MaxLen}

\* activity.text of an incoming message: a string, or no text at all
Texts == Strings \cup {undefined}

\* ---- JavaScript primitives used by the dialog ----
\* !v
Falsy(v) == v = undefined \/ v = <<>>

\* a || b
Or(a, b) == IF Falsy(a) THEN b ELSE a

\* String.prototype.toUpperCase on one character
toUpperCase(c) == IF c = "b" THEN "B" ELSE c

\* String.prototype.charAt(0)
charAt0(s) == IF Len(s) = 0 THEN <<>> ELSE <<s[1]>>

\* String.prototype.substr(1)
substr1(s) == IF Len(s) <= 1 THEN <<>> ELSE SubSeq(s, 2, Len(s))

RECURSIVE trimStart(_)
trimStart(s) ==
    IF s # <<>> /\ s[1] \in Whitespace THEN trimStart(Tail(s)) ELSE s

RECURSIVE trimEnd(_)
trimEnd(s) ==
    IF s # <<>> /\ s[Len(s)] \in Whitespace
    THEN trimEnd(SubSeq(s, 1, Len(s) - 1)) ELSE s

\* String.prototype.trim
trim(s) == trimEnd(trimStart(s))

\* `${v}` inside a template literal
TemplateString(v) ==
    IF v = undefined THEN <<"u", "n", "d", "e", "f", "i", "n", "e", "d">> ELSE v

\* capitalize without the toUpperCase call
capitalize_NoUpper(s) == charAt0(s) \o substr1(s)

\* capitalize with toUpperCase applied to the whole string
capitalize_UpperAll(s) == [i \in 1..Len(s) |-> toUpperCase(s[i])]

\* lowerCase.charAt(0).toUpperCase() + lowerCase.substr(1)
capitalize(s) == [i \in 1..Len(charAt0(s)) |-> toUpperCase(charAt0(s)[i])] \o substr1(s)

\* ---- userProfile.js ----
UserProfile(name, city, phone) ==
    [name |-> Or(name, undefined),
     city |-> Or(city, undefined),
     phone |-> Or(phone, undefined)]

\* arguments callers construct profiles from
SeedArgs == {undefined, <<>>, <<"b", "5">>}

Profiles == {UserProfile(n, c, p) : n \in SeedArgs, c \in SeedArgs, p \in SeedArgs}

\* the profile the state store may hold when the dialog begins
OptionalProfiles == {<<>>} \cup {<<p>> : p \in Profiles}

\* options.userProfile as callers pass it: absent, a name only, all three
\* fields
OptionProfiles ==
    {<<>>,
     <<UserProfile(<<"b", "5">>, <<>>, undefined)>>,
     <<UserProfile(<<"b", "5">>, <<"b", "5">>, <<"b", "5">>)>>}

VARIABLES
    store,      \* what userProfileAccessor.get returns: <<>> or <<profile>>
    options,    \* step.options of the waterfall: [userProfile |-> <<>> or <<profile>>]
    stack,      \* the component's dialog stack, active dialog last
    control,    \* "constructed", "step" (a waterfall step is to run), "waiting", "ended"
    result,     \* step.result handed to the step that is to run
    sent,       \* the activities sent to the respondent, in order
    store0,     \* history: the store when the dialog began
    answers,    \* history: per prompt, <<>> or <<value the prompt returned>>
    stepLog,    \* history: the waterfall steps executed, in order
    input,      \* history: the text of the last incoming activity
    \* the construction of the Greeting dialog
    args,       \* [dialogId, userProfileAccessor] passed to the constructor
    dialogs,    \* the dialogs added to the component: [steps, prompts]
    thrown,     \* <<>> or <<the value the constructor threw>>
    \* the publish script
    pubPc,      \* "start", "zipping", "uploading", "done"
    zipResult,  \* <<>> or <<what zipFolder passed to its callback>>
    archive,    \* whether the file at zipPath exists
    response,   \* <<>> or <<status code of the 'response' event>>
    errors,     \* number of 'error' events the request has emitted
    uploads,    \* number of calls of uploadZip
    unlinks,    \* number of calls of fs.unlink(zipPath)
    calls,      \* the arguments publish's callback was called with, in order
    console     \* what the callback wrote: "log" or "error" per line

dialogVars == <<store, options, stack, control, result, sent, store0, answers, stepLog, input>>
ctorVars == <<args, dialogs, thrown>>
pubVars == <<pubPc, zipResult, archive, response, errors, uploads, unlinks, calls, console>>

vars == <<dialogVars, ctorVars, pubVars>>

Prompts == {NAME_PROMPT, CITY_PROMPT, PHONE_PROMPT}

\* ---- the texts the dialog sends (literal parts kept as single tokens) ----
NamePromptText == <<"What is your name??">>
CityPromptText(name) == <<"Hello. ">> \o TemplateString(name) \o <<"! Where do you live? ">>
PhonePromptText == <<"What is your number??">>
NameTooShortText == <<"Your name is too short?  ", "2", " or more characters please.">>
GreetingText(p) ==
    <<"Hi. ">> \o TemplateString(p.name) \o <<", ">> \o TemplateString(p.city)
        \o <<" is where you live. Me too! May I call? ">> \o TemplateString(p.phone)

Activity(kind, text) == [kind |-> kind, text |-> text]

\* ---- Greeting.constructor ----
\* the dialogId and the accessor callers may pass: missing, empty, present
DialogIds == {undefined, <<>>, <<"g">>}
Accessors == {undefined, <<"userProfileAccessor">>}

NoDialogs == [steps |-> <<>>, prompts |-> {}]

\* what the constructor adds: the waterfall's steps in order, and each text
\* prompt with its validator
AddedDialogs ==
    [steps |-> <<"initializeStateStep", "promptForNameStep", "promptForCityStep",
                 "promptForPhoneStep", "displayGreetingStep">>,
     prompts |-> {<<NAME_PROMPT, "validateName">>,
                  <<CITY_PROMPT, "validateCity">>,
                  <<PHONE_PROMPT, "validatePhone">>}]

\* the constructor without the test of userProfileAccessor
constructor_NoAccessorTest ==
    /\ control = "new"
    /\ IF Falsy(args.dialogId)
       THEN /\ thrown' = <<"Missing parameter.  dialogId is required">>
            /\ control' = "thrown"
            /\ dialogs' = dialogs
       ELSE /\ dialogs' = AddedDialogs
            /\ control' = "constructed"
            /\ thrown' = thrown
    /\ UNCHANGED <<store, options, stack, result, sent, store0, answers, stepLog, input>>
    /\ UNCHANGED <<args, pubVars>>

constructor ==
    /\ control = "new"
    /\ IF Falsy(args.dialogId)
       THEN /\ thrown' = <<"Missing parameter.  dialogId is required">>
            /\ control' = "thrown"
            /\ dialogs' = dialogs
       ELSE IF Falsy(args.userProfileAccessor)
       THEN /\ thrown' = <<"Missing parameter.  userProfileAccessor is required">>
            /\ control' = "thrown"
            /\ dialogs' = dialogs
       ELSE /\ dialogs' = AddedDialogs
            /\ control' = "constructed"
            /\ thrown' = thrown
    /\ UNCHANGED <<store, options, stack, result, sent, store0, answers, stepLog, input>>
    /\ UNCHANGED <<args, pubVars>>

\* the dialog constructed with both arguments present
Constructed ==
    /\ args = [dialogId |-> <<"g">>, userProfileAccessor |-> <<"userProfileAccessor">>]
    /\ dialogs = AddedDialogs
    /\ thrown = <<>>

\* the publish script not started
PublishNotStarted ==
    /\ pubPc = "start"
    /\ zipResult = <<>>
    /\ archive = FALSE
    /\ response = <<>>
    /\ errors = 0
    /\ uploads = 0
    /\ unlinks = 0
    /\ calls = <<>>
    /\ console = <<>>

Init ==
    /\ Constructed
    /\ PublishNotStarted
    /\ store \in OptionalProfiles
    /\ options \in [userProfile : OptionProfiles]
    /\ stack = <<>>
    /\ control = "constructed"
    /\ result = undefined
    /\ sent = <<>>
    /\ store0 = store
    /\ answers = [p \in Prompts |-> <<>>]
    /\ stepLog = <<>>
    /\ input = undefined

\* ---- botbuilder-dialogs primitives as the dialog uses them ----
Waterfall(i) == [id |-> PROFILE_DIALOG, stepIndex |-> i]

\* the waterfall is the active dialog and its step i is the one to run
Running(i) == control = "step" /\ stack = <<Waterfall(i)>>

\* step.next(): the following step runs with step.result undefined
next ==
    /\ stack' = <<Waterfall(stack[1].stepIndex + 1)>>
    /\ control' = "step"
    /\ result' = undefined
    /\ sent' = sent

\* step.prompt(id, text): the prompt becomes the active dialog, sends its
\* text and the turn ends
prompt(id, text) ==
    /\ stack' = Append(stack, [id |-> id, prompt |-> text])
    /\ sent' = Append(sent, Activity(id, text))
    /\ control' = "waiting"
    /\ result' = undefined

\* greetUser that sends the summary and goes on to the following step
greetUser_NoEndDialog(p) ==
    /\ sent' = Append(sent, Activity("greeting", GreetingText(p)))
    /\ stack' = <<Waterfall(stack[1].stepIndex + 1)>>
    /\ control' = "step"
    /\ result' = undefined

\* greetUser: send the summary of the profile p and end the dialog
greetUser(p) ==
    /\ sent' = Append(sent, Activity("greeting", GreetingText(p)))
    /\ stack' = <<>>
    /\ control' = "ended"
    /\ result' = undefined

Executed(name) ==
    /\ stepLog' = Append(stepLog, name)
    /\ UNCHANGED <<options, store0, answers, input>>
    /\ UNCHANGED <<ctorVars, pubVars>>

\* ---- the five waterfall steps ----
\* One action per step function. A step that returns step.next() hands
\* control to the following step within the same turn; no other action is
\* enabled in between.
\* initializeStateStep without the `userProfile === undefined` test
initializeStateStep_Overwrite ==
    /\ Running(0)
    /\ store' = IF options.userProfile # <<>>
                THEN options.userProfile
                ELSE <<UserProfile(undefined, undefined, undefined)>>
    /\ next
    /\ Executed("initializeStateStep")

\* initializeStateStep that never looks at step.options
initializeStateStep_IgnoreOptions ==
    /\ Running(0)
    /\ store' = IF store = <<>>
                THEN <<UserProfile(undefined, undefined, undefined)>>
                ELSE store
    /\ next
    /\ Executed("initializeStateStep")

initializeStateStep ==
    /\ Running(0)
    /\ store' = IF store = <<>>
                THEN IF options.userProfile # <<>>
                     THEN options.userProfile
                     ELSE <<UserProfile(undefined, undefined, undefined)>>
                ELSE store
    /\ next
    /\ Executed("initializeStateStep")

\* promptForNameStep without the "everything we need" shortcut
promptForNameStep_NoShortcut ==
    /\ Running(1)
    /\ store' = store
    /\ IF Falsy(store[1].name)
       THEN prompt(NAME_PROMPT, NamePromptText)
       ELSE next
    /\ Executed("promptForNameStep")

\* promptForNameStep without the `!userProfile.name` test
promptForNameStep_AlwaysPrompt ==
    /\ Running(1)
    /\ store' = store
    /\ LET userProfile == store[1] IN
       IF store # <<>> /\ userProfile.name # undefined
          /\ userProfile.city # undefined /\ userProfile.phone # undefined
       THEN greetUser(userProfile)
       ELSE prompt(NAME_PROMPT, NamePromptText)
    /\ Executed("promptForNameStep")

\* promptForNameStep whose shortcut forgets to test the phone
promptForNameStep_GreetWithoutPhone ==
    /\ Running(1)
    /\ store' = store
    /\ LET userProfile == store[1] IN
       IF store # <<>> /\ userProfile.name # undefined
          /\ userProfile.city # undefined
       THEN greetUser(userProfile)
       ELSE IF Falsy(userProfile.name)
            THEN prompt(NAME_PROMPT, NamePromptText)
            ELSE next
    /\ Executed("promptForNameStep")

promptForNameStep ==
    /\ Running(1)
    /\ store' = store
    /\ LET userProfile == store[1] IN
       IF store # <<>> /\ userProfile.name # undefined
          /\ userProfile.city # undefined /\ userProfile.phone # undefined
       THEN greetUser(userProfile)
       ELSE IF Falsy(userProfile.name)
            THEN prompt(NAME_PROMPT, NamePromptText)
            ELSE next
    /\ Executed("promptForNameStep")

promptForCityStep ==
    /\ Running(2)
    /\ LET old == store[1]
           userProfile == IF old.name = undefined /\ ~Falsy(result)
                          THEN [old EXCEPT !.name = capitalize(result)]
                          ELSE old
       IN /\ store' = <<userProfile>>
          /\ IF Falsy(userProfile.city)
             THEN prompt(CITY_PROMPT, CityPromptText(userProfile.name))
             ELSE next
    /\ Executed("promptForCityStep")

\* promptForPhoneStep that asks with the city prompt again
promptForPhoneStep_CityPrompt ==
    /\ Running(3)
    /\ LET old == store[1]
           userProfile == IF old.city = undefined /\ ~Falsy(result)
                          THEN [old EXCEPT !.city = capitalize(result)]
                          ELSE old
       IN /\ store' = <<userProfile>>
          /\ IF Falsy(userProfile.phone)
             THEN prompt(CITY_PROMPT, CityPromptText(userProfile.name))
             ELSE next
    /\ Executed("promptForPhoneStep")

promptForPhoneStep ==
    /\ Running(3)
    /\ LET old == store[1]
           userProfile == IF old.city = undefined /\ ~Falsy(result)
                          THEN [old EXCEPT !.city = capitalize(result)]
                          ELSE old
       IN /\ store' = <<userProfile>>
          /\ IF Falsy(userProfile.phone)
             THEN prompt(PHONE_PROMPT, PhonePromptText)
             ELSE next
    /\ Executed("promptForPhoneStep")

displayGreetingStep ==
    /\ Running(4)
    /\ LET old == store[1]
           userProfile == IF old.phone = undefined /\ ~Falsy(result)
                          THEN [old EXCEPT !.phone = capitalize(result)]
                          ELSE old
       IN /\ store' = <<userProfile>>
          /\ greetUser(userProfile)
    /\ Executed("displayGreetingStep")

\* ---- the prompt validators ----
\* each yields its verdict and the activities it sends

\* validateName without the trim
validateName_NoTrim(recognized) ==
    LET value == Or(recognized, <<>>) IN
    IF Len(value) >= NAME_LENGTH_MIN
    THEN [valid |-> VALIDATION_SUCCEEDED, sends |-> <<>>]
    ELSE [valid |-> VALIDATION_FAILED,
          sends |-> <<Activity("validation", NameTooShortText)>>]

\* validateName with `>` for `>=`
validateName_Strict(recognized) ==
    LET value == trim(Or(recognized, <<>>)) IN
    IF Len(value) > NAME_LENGTH_MIN
    THEN [valid |-> VALIDATION_SUCCEEDED, sends |-> <<>>]
    ELSE [valid |-> VALIDATION_FAILED,
          sends |-> <<Activity("validation", NameTooShortText)>>]

validateName(recognized) ==
    LET value == trim(Or(recognized, <<>>)) IN
    IF Len(value) >= NAME_LENGTH_MIN
    THEN [valid |-> VALIDATION_SUCCEEDED, sends |-> <<>>]
    ELSE [valid |-> VALIDATION_FAILED,
          sends |-> <<Activity("validation", NameTooShortText)>>]

\* validateCity that wants a recognized text
validateCity_NonEmpty(recognized) ==
    [valid |-> IF recognized # undefined THEN VALIDATION_SUCCEEDED ELSE VALIDATION_FAILED,
     sends |-> <<>>]

validateCity(recognized) == [valid |-> VALIDATION_SUCCEEDED, sends |-> <<>>]

validatePhone(recognized) == [valid |-> VALIDATION_SUCCEEDED, sends |-> <<>>]

\* the validator registered with each TextPrompt
Validator(id, recognized) ==
    CASE id = NAME_PROMPT -> validateName(recognized)
      [] id = CITY_PROMPT -> validateCity(recognized)
      [] id = PHONE_PROMPT -> validatePhone(recognized)

\* TextPrompt.onRecognize: the text when it is a non-empty string
onRecognize(text) == IF text # undefined /\ Len(text) > 0 THEN text ELSE undefined

Failures == Cardinality({i \in 1..Len(sent) : sent[i].kind = "validation"})

\* an incoming message while a prompt is the active dialog
\* (Prompt.continueDialog, then WaterfallDialog.resumeDialog when valid).
\* The registered validator is called whether or not a text was recognized;
\* when it accepts, the prompt ends with the recognized value (undefined for
\* a missing or empty text) as the result of the next step. When it rejects,
\* the prompt text is sent again only if the validator sent nothing itself.
\* Rejections are counted and capped at MaxFailures.
continueDialog(text) ==
    /\ control = "waiting"
    /\ Len(stack) = 2
    /\ LET active == stack[2]
           recognized == onRecognize(text)
           verdict == Validator(active.id, recognized)
       IN IF verdict.valid
          THEN /\ stack' = <<Waterfall(stack[1].stepIndex + 1)>>
               /\ control' = "step"
               /\ result' = recognized
               /\ sent' = sent \o verdict.sends
               /\ answers' = [answers EXCEPT ![active.id] = <<recognized>>]
          ELSE /\ Failures < MaxFailures
               /\ sent' = sent \o (IF verdict.sends = <<>>
                                   THEN <<Activity(active.id, active.prompt)>>
                                   ELSE verdict.sends)
               /\ UNCHANGED <<stack, control, result, answers>>
    /\ input' = text
    /\ UNCHANGED <<store, options, store0, stepLog>>
    /\ UNCHANGED <<ctorVars, pubVars>>

\* the bot begins the dialog: the waterfall starts at its first step
beginDialog ==
    /\ control = "constructed"
    /\ stack' = <<Waterfall(0)>>
    /\ control' = "step"
    /\ UNCHANGED <<store, options, result, sent, store0, answers, stepLog, input>>
    /\ UNCHANGED <<ctorVars, pubVars>>

Next ==
    \/ beginDialog
    \/ initializeStateStep
    \/ promptForNameStep
    \/ promptForCityStep
    \/ promptForPhoneStep
    \/ displayGreetingStep
    \/ \E text \in Texts : continueDialog(text)

Spec == Init /\ [][Next]_vars

\* ---- the dialog with a respondent who keeps answering ----
\* texts the respondent sends: none, empty, too short, too short once
\* trimmed, long enough
LiveTexts == {undefined, <<>>, <<"b">>, <<" ", "b">>, <<"b", "5">>}

\* an answer the pending prompt accepts
AcceptedAnswer == \E text \in LiveTexts : continueDialog(text) /\ control' = "step"

\* an answer the pending prompt rejects
RejectedAnswer == \E text \in LiveTexts : continueDialog(text) /\ control' = "waiting"

LiveNext ==
    \/ beginDialog
    \/ initializeStateStep
    \/ promptForNameStep
    \/ promptForCityStep
    \/ promptForPhoneStep
    \/ displayGreetingStep
    \/ AcceptedAnswer
    \/ RejectedAnswer

\* the bot runs every step that is due; the respondent answers every pending
\* prompt and eventually with an answer the prompt accepts
LiveSpec ==
    /\ Init
    /\ [][LiveNext]_vars
    /\ WF_vars(beginDialog)
    /\ WF_vars(initializeStateStep)
    /\ WF_vars(promptForNameStep)
    /\ WF_vars(promptForCityStep)
    /\ WF_vars(promptForPhoneStep)
    /\ WF_vars(displayGreetingStep)
    /\ WF_vars(AcceptedAnswer)

\* ---- the construction of the dialog ----
ConstructorInit ==
    /\ args \in [dialogId : DialogIds, userProfileAccessor : Accessors]
    /\ dialogs = NoDialogs
    /\ thrown = <<>>
    /\ PublishNotStarted
    /\ store \in OptionalProfiles
    /\ options \in [userProfile : OptionProfiles]
    /\ stack = <<>>
    /\ control = "new"
    /\ result = undefined
    /\ sent = <<>>
    /\ store0 = store
    /\ answers = [p \in Prompts |-> <<>>]
    /\ stepLog = <<>>
    /\ input = undefined

ConstructorNext ==
    \/ constructor
    \/ beginDialog

ConstructorSpec == ConstructorInit /\ [][ConstructorNext]_vars

\* ---- the publish script (src/publish.js) ----
\* bound of the model: 'error' events one request may emit
MaxErrorEvents == 1

\* HTTP status codes of the response, informational and redirects included
StatusCodes == 100..599

\* values handed to callbacks: null, the response object, an error object
Null == [kind |-> "null", statusCode |-> 0, error |-> ""]
Resp(statusCode) == [kind |-> "response", statusCode |-> statusCode, error |-> ""]
Err(e) == [kind |-> "error", statusCode |-> 0, error |-> e]

ZipErrors == {Err("ENOENT"), Err("EACCES")}
TransportErrors == {Err("ECONNRESET"), Err("ETIMEDOUT")}

\* the callback passed to publish: one console line per call
callback(err) ==
    /\ calls' = Append(calls, err)
    /\ console' = Append(console, IF err = Null THEN "log" ELSE "error")

\* the script calls publish, which starts zipFolder
publish ==
    /\ pubPc = "start"
    /\ pubPc' = "zipping"
    /\ UNCHANGED <<zipResult, archive, response, errors, uploads, unlinks, calls, console>>
    /\ UNCHANGED <<dialogVars, ctorVars>>

\* uploadZip: the archive is piped into one PUT request
uploadZip ==
    /\ uploads' = uploads + 1
    /\ pubPc' = "uploading"
    /\ UNCHANGED <<response, errors, unlinks, calls, console>>

\* zipFolder's callback that uploads whatever zipFolder reported
zipFolderCallback_IgnoreError(err) ==
    /\ pubPc = "zipping"
    /\ zipResult' = <<err>>
    /\ archive' = TRUE
    /\ uploadZip
    /\ UNCHANGED <<dialogVars, ctorVars>>

\* zipFolder's callback: a successful zip leaves the archive at zipPath; a
\* failed one may leave a partial file there
zipFolderCallback(err) ==
    /\ pubPc = "zipping"
    /\ zipResult' = <<err>>
    /\ IF err = Null
       THEN /\ archive' = TRUE
            /\ uploadZip
       ELSE /\ archive' \in {archive, TRUE}
            /\ callback(err)
            /\ pubPc' = "done"
            /\ UNCHANGED <<response, errors, uploads, unlinks>>
    /\ UNCHANGED <<dialogVars, ctorVars>>

\* the 'response' handler with `<= 300` for `< 300`
onResponse_Inclusive300(statusCode) ==
    /\ pubPc = "uploading"
    /\ response = <<>>
    /\ errors = 0
    /\ response' = <<statusCode>>
    /\ IF statusCode >= 200 /\ statusCode <= 300
       THEN /\ archive' = FALSE
            /\ unlinks' = unlinks + 1
            /\ callback(Null)
       ELSE IF statusCode >= 400
       THEN /\ callback(Resp(statusCode))
            /\ UNCHANGED <<archive, unlinks>>
       ELSE UNCHANGED <<archive, unlinks, calls, console>>
    /\ UNCHANGED <<pubPc, zipResult, errors, uploads>>
    /\ UNCHANGED <<dialogVars, ctorVars>>

\* the 'response' handler of the request
onResponse(statusCode) ==
    /\ pubPc = "uploading"
    /\ response = <<>>
    /\ errors = 0
    /\ response' = <<statusCode>>
    /\ IF statusCode >= 200 /\ statusCode < 300
       THEN /\ archive' = FALSE
            /\ unlinks' = unlinks + 1
            /\ callback(Null)
       ELSE IF statusCode >= 400
       THEN /\ callback(Resp(statusCode))
            /\ UNCHANGED <<archive, unlinks>>
       ELSE UNCHANGED <<archive, unlinks, calls, console>>
    /\ UNCHANGED <<pubPc, zipResult, errors, uploads>>
    /\ UNCHANGED <<dialogVars, ctorVars>>

\* the 'error' handler of the request; the request may fail before any
\* response or after one
onError(err) ==
    /\ pubPc = "uploading"
    /\ errors < MaxErrorEvents
    /\ errors' = errors + 1
    /\ callback(err)
    /\ UNCHANGED <<pubPc, zipResult, archive, response, uploads, unlinks>>
    /\ UNCHANGED <<dialogVars, ctorVars>>

\* the request is over (a response or an error was delivered): the script
\* has nothing left to do
requestEnds ==
    /\ pubPc = "uploading"
    /\ response # <<>> \/ errors > 0
    /\ pubPc' = "done"
    /\ UNCHANGED <<zipResult, archive, response, errors, uploads, unlinks, calls, console>>
    /\ UNCHANGED <<dialogVars, ctorVars>>

\* a run of the script; a stale archive of an earlier failed run may exist
PublishInit ==
    /\ Constructed
    /\ store = <<>>
    /\ options = [userProfile |-> <<>>]
    /\ stack = <<>>
    /\ control = "constructed"
    /\ result = undefined
    /\ sent = <<>>
    /\ store0 = store
    /\ answers = [p \in Prompts |-> <<>>]
    /\ stepLog = <<>>
    /\ input = undefined
    /\ pubPc = "start"
    /\ zipResult = <<>>
    /\ archive \in BOOLEAN
    /\ response = <<>>
    /\ errors = 0
    /\ uploads = 0
    /\ unlinks = 0
    /\ calls = <<>>
    /\ console = <<>>

PublishNext ==
    \/ publish
    \/ \E err \in {Null} \cup ZipErrors : zipFolderCallback(err)
    \/ \E statusCode \in StatusCodes : onResponse(statusCode)
    \/ \E err \in TransportErrors : onError(err)
    \/ requestEnds

PublishSpec == PublishInit /\ [][PublishNext]_vars

\* ---- vocabulary of the properties ----
Fields == {"name", "city", "phone"}

PromptOf(f) ==
    CASE f = "name" -> NAME_PROMPT
      [] f = "city" -> CITY_PROMPT
      [] f = "phone" -> PHONE_PROMPT

EmptyProfile == [name |-> undefined, city |-> undefined, phone |-> undefined]

\* the profile the run works on: the stored one, else the caller's, else empty
InitialProfile ==
    IF store0 # <<>> THEN store0[1]
    ELSE IF options.userProfile # <<>> THEN options.userProfile[1]
    ELSE EmptyProfile

Complete(p) == \A f \in Fields : p[f] # undefined

\* first character uppercased, remainder unchanged
FirstUpper(s) ==
    IF s = <<>> THEN s
    ELSE <<IF s[1] = "b" THEN "B" ELSE s[1]>> \o Tail(s)

IsPrompt(a) == a.kind \in Prompts
IsGreeting(a) == a.kind = "greeting"
PromptsSent(log) == SelectSeq(log, IsPrompt)
GreetingsSent(log) == SelectSeq(log, IsGreeting)

SummaryOf(n, c, p) ==
    Activity("greeting",
             <<"Hi. ">> \o n \o <<", ">> \o c
                 \o <<" is where you live. Me too! May I call? ">> \o p)

\* the prompt that is the active dialog, if any
PendingPrompts == {i \in 1..Len(stack) : stack[i].id \in Prompts}
Pending(id) == control = "waiting" /\ Len(stack) = 2 /\ stack[2].id = id

HasRun(name) == \E i \in 1..Len(stepLog) : stepLog[i] = name

\* the value a prompt returned to the waterfall
Answered(id) == answers[id] # <<>>
Answer(id) == answers[id][1]

\* C1: a run from an empty profile whose name, city and phone prompts are
\* answered n, c, p (c and p non-empty) ends with exactly one summary, the
\* last activity sent, built from FirstUpper(n), FirstUpper(c), FirstUpper(p).
C1_EndToEndSummary ==
    (/\ control = "ended"
     /\ InitialProfile = EmptyProfile
     /\ \A id \in Prompts : Answered(id) /\ Answer(id) # undefined)
    => /\ Len(GreetingsSent(sent)) = 1
       /\ sent[Len(sent)] = SummaryOf(FirstUpper(Answer(NAME_PROMPT)),
                                      FirstUpper(Answer(CITY_PROMPT)),
                                      FirstUpper(Answer(PHONE_PROMPT)))

C1_Witness ==
    /\ control = "ended"
    /\ InitialProfile = EmptyProfile
    /\ Answered(NAME_PROMPT) /\ Answer(NAME_PROMPT) = <<"b", "5">>
    /\ Answered(CITY_PROMPT) /\ Answer(CITY_PROMPT) = <<"b", "b">>
    /\ Answered(PHONE_PROMPT) /\ Answer(PHONE_PROMPT) = <<"5", "5">>
    /\ sent[Len(sent)] = SummaryOf(<<"B", "5">>, <<"B", "b">>, <<"5", "5">>)

\* C2: while the name prompt is pending, an answer of trimmed length < 2
\* (a missing or empty one included) sends the length-violation message,
\* keeps the name prompt pending and leaves the profile unchanged; an answer
\* of trimmed length >= 2 ends the prompt and makes the city step the step
\* to run, with the answer as its result.
C2_NameValidation ==
    [][Pending(NAME_PROMPT) =>
        IF Len(trim(IF input' = undefined THEN <<>> ELSE input')) < 2
        THEN /\ sent' = Append(sent, Activity("validation", NameTooShortText))
             /\ Pending(NAME_PROMPT)'
             /\ stack' = stack
             /\ store' = store
        ELSE /\ Running(2)'
             /\ result' = input'
             /\ sent' = sent]_vars

C2_Witness ==
    /\ Failures >= 1
    /\ Answered(NAME_PROMPT)
    /\ Len(stepLog) >= 3 /\ stepLog[3] = "promptForCityStep"

\* C3: when the name step runs on a stored profile with name, city and phone
\* all set, it sends the summary of that profile and ends the dialog, and the
\* run has emitted no prompt.
C3_CompleteProfileSkipsPrompts ==
    [][(Running(1) /\ store # <<>> /\ Complete(store[1])) =>
        /\ control' = "ended"
        /\ sent' = Append(sent, SummaryOf(store[1].name, store[1].city, store[1].phone))
        /\ PromptsSent(sent') = <<>>]_vars

C3_Witness ==
    /\ control = "ended"
    /\ Complete(InitialProfile)
    /\ Len(sent) = 1 /\ IsGreeting(sent[1])

\* C4: a prompt for a field is emitted only while that field is unset in the
\* stored profile; from a profile with only the name set, the first prompt
\* emitted is the city prompt and the name prompt is never emitted.
C4_NoPromptForPopulatedField ==
    /\ [][\A f \in Fields :
            (Len(sent') = Len(sent) + 1 /\ sent'[Len(sent')].kind = PromptOf(f))
            => /\ store # <<>> /\ store[1][f] = undefined
               /\ store'[1][f] = undefined]_vars
    /\ []((/\ InitialProfile.name # undefined
           /\ InitialProfile.city = undefined
           /\ InitialProfile.phone = undefined
           /\ PromptsSent(sent) # <<>>)
          => /\ PromptsSent(sent)[1].kind = CITY_PROMPT
             /\ \A i \in 1..Len(sent) : sent[i].kind # NAME_PROMPT)

C4_Witness ==
    /\ InitialProfile.name # undefined
    /\ InitialProfile.city = undefined
    /\ InitialProfile.phone = undefined
    /\ Len(sent) >= 2
    /\ sent[1].kind = CITY_PROMPT /\ sent[2].kind = PHONE_PROMPT

\* C5: once a field of the stored profile holds a value, every later state of
\* the run holds the same value in that field.
C5_FieldsNeverCleared ==
    [][\A f \in Fields :
        (store # <<>> /\ store[1][f] # undefined)
        => (store' # <<>> /\ store'[1][f] = store[1][f])]_vars

C5_Witness ==
    /\ control = "ended"
    /\ store0 # <<>> /\ store0[1].name # undefined
    /\ options.userProfile # <<>> /\ options.userProfile # store0
    /\ Answered(CITY_PROMPT) /\ Answer(CITY_PROMPT) # undefined
    /\ Answered(PHONE_PROMPT)
    /\ store[1].name = store0[1].name
    /\ store[1].city = FirstUpper(Answer(CITY_PROMPT))

\* where the value of a populated field came from: the initial profile, else
\* the answer to the field's prompt
RawInput(f) ==
    IF InitialProfile[f] # undefined THEN InitialProfile[f]
    ELSE IF Answered(PromptOf(f)) THEN Answer(PromptOf(f))
    ELSE undefined

\* C6 as stated: in every state of a run past the initialize step, every
\* populated field of the stored profile, seeded ones included, is FirstUpper
\* of the raw input it came from.
C6_AllFieldsCapitalized ==
    \A f \in Fields :
        (HasRun("initializeStateStep") /\ store[1][f] # undefined)
        => (RawInput(f) # undefined /\ store[1][f] = FirstUpper(RawInput(f)))

\* C6 amended: a populated field that was unset in the initial profile is
\* FirstUpper of the answer to its prompt; a field set in the initial profile
\* holds the initial value unchanged.
C6_AnswersCapitalizedSeedsKept ==
    \A f \in Fields :
        (store # <<>> /\ store[1][f] # undefined)
        => IF InitialProfile[f] # undefined
           THEN store[1][f] = InitialProfile[f]
           ELSE /\ Answered(PromptOf(f))
                /\ Answer(PromptOf(f)) # undefined
                /\ store[1][f] = FirstUpper(Answer(PromptOf(f)))

C6_Witness ==
    /\ control = "ended"
    /\ InitialProfile.name = <<"b", "5">>
    /\ store[1].name = <<"b", "5">>
    /\ Answered(CITY_PROMPT) /\ Answer(CITY_PROMPT) = <<"b", "b">>
    /\ store[1].city = <<"B", "b">>

\* the step that stores the answer to a prompt
StoringStep(id) ==
    CASE id = NAME_PROMPT -> "promptForCityStep"
      [] id = CITY_PROMPT -> "promptForPhoneStep"
      [] id = PHONE_PROMPT -> "displayGreetingStep"

\* C7 as stated: once a prompt's answer has been accepted and the next step
\* has run, the prompt's field is populated with FirstUpper(answer).
C7_AcceptedAnswerStored ==
    \A f \in Fields :
        (Answered(PromptOf(f)) /\ HasRun(StoringStep(PromptOf(f))))
        => /\ store[1][f] # undefined
           /\ Answer(PromptOf(f)) # undefined
           /\ store[1][f] = FirstUpper(Answer(PromptOf(f)))

\* C8: the initialize step keeps an existing stored profile whatever the
\* options are, stores options.userProfile when there is none, else a profile
\* with all fields unset; it sends nothing and makes the name step the step to
\* run.
C8_InitializeFrame ==
    [][Running(0) =>
        /\ store' = (IF store # <<>> THEN store
                     ELSE IF options.userProfile # <<>> THEN options.userProfile
                     ELSE <<EmptyProfile>>)
        /\ sent' = sent
        /\ Running(1)']_vars

C8_Witness ==
    /\ HasRun("initializeStateStep")
    /\ store0 = <<>>
    /\ options.userProfile # <<>>
    /\ ~Complete(options.userProfile[1])
    /\ Running(1)
    /\ store = options.userProfile

EndedBy == stepLog[Len(stepLog)]

\* C9 as stated: the dialog is ended only by the final step.
C9_OnlyFinalStepEnds ==
    control = "ended" => EndedBy = "displayGreetingStep"

\* C9 amended: the dialog is ended by the final step, or by the name step
\* when the stored profile already has name, city and phone set.
C9_FinalOrCompleteNameStepEnds ==
    control = "ended" =>
        \/ EndedBy = "displayGreetingStep"
        \/ EndedBy = "promptForNameStep" /\ Complete(store[1])

C9_Witness ==
    /\ control = "ended"
    /\ EndedBy = "promptForNameStep"
    /\ Complete(store[1])

StepOrder ==
    <<"initializeStateStep", "promptForNameStep", "promptForCityStep",
      "promptForPhoneStep", "displayGreetingStep">>

PromptOrder == <<NAME_PROMPT, CITY_PROMPT, PHONE_PROMPT>>

IndexIn(seq, x) == CHOOSE i \in 1..Len(seq) : seq[i] = x

\* C10: the steps executed are a prefix of the fixed order; the prompts
\* emitted are a subsequence of (name, city, phone); at most one prompt is on
\* the dialog stack; no step executes while a prompt is pending.
C10_FixedOrder ==
    /\ [](/\ Len(stepLog) <= Len(StepOrder)
          /\ \A i \in 1..Len(stepLog) : stepLog[i] = StepOrder[i]
          /\ \A i, j \in 1..Len(PromptsSent(sent)) :
                i < j => IndexIn(PromptOrder, PromptsSent(sent)[i].kind)
                            < IndexIn(PromptOrder, PromptsSent(sent)[j].kind)
          /\ Cardinality(PendingPrompts) <= 1)
    /\ [][PendingPrompts # {} => stepLog' = stepLog]_vars

C10_Witness ==
    /\ control = "ended"
    /\ Len(PromptsSent(sent)) = 3
    /\ stepLog = StepOrder

Is2xx(code) == code >= 200 /\ code < 300

C12_SingleUploadAfterZip ==
    /\ [](uploads <= 1)
    /\ [](uploads > 0 => zipResult = <<Null>>)
    /\ []((zipResult # <<>> /\ zipResult # <<Null>>)
          => /\ pubPc = "done"
             /\ calls = zipResult
             /\ uploads = 0 /\ unlinks = 0 /\ response = <<>>)
    /\ [][uploads' # uploads => (pubPc = "zipping" /\ uploads = 0)]_vars
    /\ [][pubPc = "done" => UNCHANGED pubVars]_vars

C12_Witness ==
    /\ pubPc = "done"
    /\ zipResult = <<Err("ENOENT")>>
    /\ calls = <<Err("ENOENT")>>
    /\ uploads = 0

\* C19 as stated: the callback is never called twice, and once the run is
\* over it has been called exactly once.
C19_CallbackExactlyOnce ==
    /\ Len(calls) <= 1
    /\ pubPc = "done" => Len(calls) = 1

C14_ConstructorArguments ==
    /\ [][control = "new" =>
            IF args.dialogId \in {undefined, <<>>} \/ args.userProfileAccessor = undefined
            THEN /\ control' = "thrown"
                 /\ thrown' # <<>>
                 /\ dialogs' = NoDialogs
            ELSE /\ control' = "constructed"
                 /\ thrown' = <<>>
                 /\ dialogs'.steps = StepOrder
                 /\ {d[1] : d \in dialogs'.prompts} = Prompts
                 /\ Cardinality(dialogs'.prompts) = 3]_vars
    /\ [](control = "thrown" => (stack = <<>> /\ ~ENABLED beginDialog))

C14_Witness ==
    /\ control = "thrown"
    /\ args.dialogId = <<"g">>
    /\ args.userProfileAccessor = undefined
    /\ dialogs = NoDialogs

\* C15 as stated: whenever the summary has been sent, name, city and phone of
\* the stored profile are all populated.
C15_SummaryOfCompleteProfile ==
    GreetingsSent(sent) # <<>> => Complete(store[1])

\* the explicit machine: Init, AwaitName, AwaitCity, AwaitPhone, Done
AwaitOf(id) ==
    CASE id = NAME_PROMPT -> "AwaitName"
      [] id = CITY_PROMPT -> "AwaitCity"
      [] id = PHONE_PROMPT -> "AwaitPhone"

FieldOrder == <<"name", "city", "phone">>

\* the fields a state of the machine still has to ask for
FirstField(state) ==
    CASE state = "Init" -> 1
      [] state = "AwaitName" -> 2
      [] state = "AwaitCity" -> 3
      [] state = "AwaitPhone" -> 4
      [] state = "Done" -> 4

\* the transition table: from a state, on the field-populated predicates of
\* the profile p, to the first field at or after FirstField that p lacks, or
\* to Done when there is none
Target(state, p) ==
    LET missing == {i \in FirstField(state)..3 : p[FieldOrder[i]] = undefined} IN
    IF missing = {} THEN "Done"
    ELSE AwaitOf(PromptOf(FieldOrder[CHOOSE i \in missing : \A j \in missing : i <= j]))

\* the machine's state in a state of the dialog; the steps that run within
\* one turn belong to the transition the turn makes
FsmState ==
    IF control = "ended" THEN "Done"
    ELSE IF PromptsSent(sent) = <<>> THEN "Init"
    ELSE AwaitOf(PromptsSent(sent)[Len(PromptsSent(sent))].kind)

\* C16: every run of the waterfall is a run of the machine: the machine's
\* state changes only along the transition table, it is AwaitX exactly when
\* the prompt for X is pending (at the end of a turn) and Done exactly when
\* the summary has been sent.
C16_RefinesStateMachine ==
    /\ [][FsmState' # FsmState => FsmState' = Target(FsmState, store'[1])]_vars
    /\ [](\A id \in Prompts : Pending(id) => FsmState = AwaitOf(id))
    /\ [](control = "waiting" => \E id \in Prompts : Pending(id) /\ FsmState = AwaitOf(id))
    /\ [](FsmState = "Done" <=> GreetingsSent(sent) # <<>>)
    /\ [](control = "constructed" => FsmState = "Init")

C16_Witness ==
    /\ FsmState = "AwaitPhone"
    /\ Pending(PHONE_PROMPT)
    /\ InitialProfile.name = undefined
    /\ InitialProfile.city # undefined
    /\ Len(PromptsSent(sent)) = 2

C18_SummaryOnceThenEnded ==
    /\ [](Len(GreetingsSent(sent)) <= 1)
    /\ [](GreetingsSent(sent) # <<>> => (control = "ended" /\ stack = <<>>))
    /\ [][GreetingsSent(sent) # <<>> => UNCHANGED <<store, sent, stepLog, stack>>]_vars

C18_Witness ==
    /\ control = "ended"
    /\ stepLog = <<"initializeStateStep", "promptForNameStep">>
    /\ Len(GreetingsSent(sent)) = 1
    /\ PromptsSent(sent) = <<>>

====
